---------------------------- MODULE Spec2Model ----------------------------
(***************************************************************************)
(* Model of the frame history manager of gosvm: CircularFrameBuffer        *)
(* (circular_frame_buffer.go) as driven by the operations main.go calls.   *)
(*                                                                         *)
(* A gocv.Mat is a small struct holding a pointer to a native image.  It   *)
(* is modelled as a handle into the heap `mats`, which records for every   *)
(* native image its content and how many times Close() was called on it.   *)
(* Copying a Mat struct copies the handle; Clone() allocates a new one.    *)
(***************************************************************************)
EXTENDS Integers, FiniteSets, Sequences, TLC

(* ------------------------------ bounds -------------------------------- *)
\* largest capacity passed to NewCircularFrameBuffer
MaxSize == 5
\* largest initial blendOffset passed to NewCircularFrameBuffer
MaxInitOffset == 3
\* number of frames the capture source delivers (successful Enqueue calls)
MaxFrames == 6
\* number of snapshots ToggleFreezeFrame may clone
MaxClones == 1
\* DecBlendOffset is not followed below -BlendFloor
BlendFloor == 1

(* ------------------------- program constants -------------------------- *)
defaultBlendOffset == 3
maxCameraRetries == 5
minBlendOffset == 1
maxBlendOffset == 109

(* ------------------------------ Mat heap ------------------------------ *)
\* content of gocv.NewMat(): an empty image
Empty == -1
\* content read through a pointer to a closed (freed) native image
Garbage == -2

\* handles of native images, by the place that allocates them
SlotMat(i) == <<"slot", i>>
InitFrozenMat == <<"frozen", 0>>
FrameMat(k) == <<"frame", k>>
CloneMat(j) == <<"clone", j>>

NewMat == [content |-> Empty, closes |-> 0]
MatOf(c) == [content |-> c, closes |-> 0]

VARIABLES
    frameBuffer,   \* slot index (0..size-1) -> Mat handle
    frozenFrame,   \* Mat handle
    blendOffset,
    size,
    head,
    tail,
    full,
    frozen,
    mats,          \* heap: handle -> [content, closes]
    enqCount,      \* Enqueue calls that returned true
    deqCount,      \* Dequeue calls that returned true
    cloneCount,    \* Clone() calls made by ToggleFreezeFrame
    op,            \* the method called last
    retBool,       \* its result, for the methods returning bool
    retInt,        \* its result, for the methods returning int
    panicked,      \* the process died on a freed native image
    pc,            \* main: the statement the loop is at ("api": no loop runs)
    attempt,       \* ReadWebcamWithRetry: the loop variable
    reads,         \* webcam.Read calls made in the current iteration
    cycles         \* main: iterations of the loop completed

vars == <<frameBuffer, frozenFrame, blendOffset, size, head, tail, full,
          frozen, mats, enqCount, deqCount, cloneCount, op, retBool, retInt,
          panicked, pc, attempt, reads, cycles>>

\* the variables of main's loop
loop == <<pc, attempt, reads, cycles>>

cfb == <<frameBuffer, frozenFrame, blendOffset, size, head, tail, full, frozen>>

\* Go's % truncates toward zero
GoMod(a, b) == IF a >= 0 THEN a % b ELSE -((-a) % b)

\* a cursor advance that forgets to wrap
NextIdxNoWrap(i) == i + 1

\* cursor advance shared by Enqueue (tail) and Dequeue (head)
NextIdx(i) == GoMod(i + 1, size)

Content(h) == mats[h].content
Closed(h) == mats[h].closes > 0
Close(h) == [mats EXCEPT ![h].closes = @ + 1]

(* ---------------------------- construction ---------------------------- *)
NewCircularFrameBuffer(sz, bo) ==
    /\ size = sz
    /\ blendOffset = bo
    /\ frameBuffer = [i \in 0..(sz - 1) |-> SlotMat(i)]
    /\ frozenFrame = InitFrozenMat
    /\ head = 0
    /\ tail = 0
    /\ full = FALSE
    /\ frozen = FALSE
    /\ mats = [h \in {SlotMat(i) : i \in 0..(sz - 1)} \cup {InitFrozenMat} |-> NewMat]

\* the buffer right after construction, called with any capacity and any
\* initial blendOffset of the bounded ranges; its methods are then called in
\* any order
Init ==
    /\ \E sz \in 1..MaxSize, bo \in minBlendOffset..MaxInitOffset :
          NewCircularFrameBuffer(sz, bo)
    /\ pc = "api"
    /\ attempt = 0
    /\ reads = 0
    /\ cycles = 0
    /\ enqCount = 0
    /\ deqCount = 0
    /\ cloneCount = 0
    /\ op = "NewCircularFrameBuffer"
    /\ retBool = FALSE
    /\ retInt = 0
    /\ panicked = FALSE

(* ------------------------------ queries ------------------------------- *)
\* an IsEmpty that forgets the full flag
IsEmptyIgnoreFull == head = tail

IsEmpty == ~full /\ head = tail

IsFull == full

IsFrozen == frozen

BaseFrameIdx == GoMod(tail - 1 + size, size)

BaseFrame == frameBuffer[BaseFrameIdx]

BlendFrameIdx == GoMod(tail - blendOffset + size, size)

CalcBlendFrame ==
    IF IsFrozen THEN frozenFrame ELSE frameBuffer[BlendFrameIdx]

(* ----------------------------- operations ----------------------------- *)
\* an Enqueue that stores into a full ring, overwriting the oldest frame
EnqueueOverwrite ==
    /\ ~panicked
    /\ op' = "Enqueue"
    /\ retInt' = 0
    /\ enqCount < MaxFrames
    /\ LET frame == FrameMat(enqCount) IN
         /\ mats' = (frame :> MatOf(enqCount)) @@ mats
         /\ frameBuffer' = [frameBuffer EXCEPT ![tail] = frame]
    /\ tail' = NextIdx(tail)
    /\ head' = IF full THEN NextIdx(head) ELSE head
    /\ full' = (tail' = head')
    /\ enqCount' = enqCount + 1
    /\ retBool' = TRUE
    /\ UNCHANGED <<frozenFrame, blendOffset, size, frozen>>
    /\ UNCHANGED <<deqCount, cloneCount, panicked>>

\* the frame main.go hands to Enqueue: currentFrame.Clone(), the k-th frame
\* of the capture source, k counting the frames stored so far
Enqueue ==
    /\ ~panicked
    /\ op' = "Enqueue"
    /\ retInt' = 0
    /\ IF full
         THEN /\ retBool' = FALSE
              /\ UNCHANGED <<cfb, mats, enqCount>>
         ELSE /\ enqCount < MaxFrames
              /\ LET frame == FrameMat(enqCount) IN
                   /\ mats' = (frame :> MatOf(enqCount)) @@ mats
                   /\ frameBuffer' = [frameBuffer EXCEPT ![tail] = frame]
              /\ tail' = NextIdx(tail)
              /\ full' = (tail' = head)
              /\ enqCount' = enqCount + 1
              /\ retBool' = TRUE
              /\ UNCHANGED <<frozenFrame, blendOffset, size, head, frozen>>
    /\ UNCHANGED <<deqCount, cloneCount, panicked>>

\* a Dequeue that releases the newest frame instead of the oldest
DequeueNewest ==
    /\ ~panicked
    /\ op' = "Dequeue"
    /\ retInt' = 0
    /\ IF IsEmpty
         THEN /\ retBool' = FALSE
              /\ UNCHANGED <<cfb, mats, deqCount>>
         ELSE /\ LET frame == frameBuffer[BaseFrameIdx] IN mats' = Close(frame)
              /\ head' = NextIdx(head)
              /\ full' = FALSE
              /\ deqCount' = deqCount + 1
              /\ retBool' = TRUE
              /\ UNCHANGED <<frameBuffer, frozenFrame, blendOffset, size, tail, frozen>>
    /\ UNCHANGED <<enqCount, cloneCount, panicked>>

\* a Dequeue that forgets to clear the full flag
DequeueKeepFull ==
    /\ ~panicked
    /\ op' = "Dequeue"
    /\ retInt' = 0
    /\ IF IsEmpty
         THEN /\ retBool' = FALSE
              /\ UNCHANGED <<cfb, mats, deqCount>>
         ELSE /\ LET frame == frameBuffer[head] IN mats' = Close(frame)
              /\ head' = NextIdx(head)
              /\ deqCount' = deqCount + 1
              /\ retBool' = TRUE
              /\ UNCHANGED <<frameBuffer, frozenFrame, blendOffset, size, tail,
                             full, frozen>>
    /\ UNCHANGED <<enqCount, cloneCount, panicked>>

Dequeue ==
    /\ ~panicked
    /\ op' = "Dequeue"
    /\ retInt' = 0
    /\ IF IsEmpty
         THEN /\ retBool' = FALSE
              /\ UNCHANGED <<cfb, mats, deqCount>>
         ELSE /\ LET frame == frameBuffer[head] IN mats' = Close(frame)
              /\ head' = NextIdx(head)
              /\ full' = FALSE
              /\ deqCount' = deqCount + 1
              /\ retBool' = TRUE
              /\ UNCHANGED <<frameBuffer, frozenFrame, blendOffset, size, tail, frozen>>
    /\ UNCHANGED <<enqCount, cloneCount, panicked>>

\* Mat.Clone() of the image behind handle h into a new image: a deep copy.
\* Cloning a closed image reads freed memory: the copy holds anything, or
\* the process dies.
CloneContents(h) ==
    IF Closed(h)
      THEN {Garbage, Empty} \cup {mats[g].content : g \in DOMAIN mats}
      ELSE {Content(h)}

\* a ToggleFreezeFrame that copies the Mat struct instead of cloning it, so
\* that the snapshot shares the slot's native image
ToggleFreezeFrameShallow ==
    /\ ~panicked
    /\ op' = "ToggleFreezeFrame"
    /\ retInt' = 0
    /\ IF frozen
         THEN /\ frozen' = FALSE
              /\ mats' = Close(frozenFrame)
              /\ retBool' = FALSE
              /\ UNCHANGED <<frameBuffer, frozenFrame, blendOffset, size, head,
                             tail, full, cloneCount, panicked>>
         ELSE /\ cloneCount < MaxClones
              /\ frozen' = TRUE
              /\ frozenFrame' = frameBuffer[tail]
              /\ cloneCount' = cloneCount + 1
              /\ retBool' = TRUE
              /\ UNCHANGED <<frameBuffer, blendOffset, size, head, tail, full,
                             mats, panicked>>
    /\ UNCHANGED <<enqCount, deqCount>>

ToggleFreezeFrame ==
    /\ ~panicked
    /\ op' = "ToggleFreezeFrame"
    /\ retInt' = 0
    /\ IF frozen
         THEN /\ frozen' = FALSE
              /\ mats' = Close(frozenFrame)
              /\ retBool' = FALSE
              /\ UNCHANGED <<frameBuffer, frozenFrame, blendOffset, size, head,
                             tail, full, cloneCount, panicked>>
         ELSE /\ cloneCount < MaxClones
              /\ \/ /\ \E c \in CloneContents(frameBuffer[tail]) :
                          mats' = (CloneMat(cloneCount) :> MatOf(c)) @@ mats
                    /\ frozen' = TRUE
                    /\ frozenFrame' = CloneMat(cloneCount)
                    /\ cloneCount' = cloneCount + 1
                    /\ retBool' = TRUE
                    /\ UNCHANGED <<frameBuffer, blendOffset, size, head, tail,
                                   full, panicked>>
                 \/ /\ Closed(frameBuffer[tail])
                    /\ panicked' = TRUE
                    /\ frozen' = TRUE
                    /\ retBool' = FALSE
                    /\ UNCHANGED <<frameBuffer, frozenFrame, blendOffset, size,
                                   head, tail, full, mats, cloneCount>>
    /\ UNCHANGED <<enqCount, deqCount>>

IncBlendOffset ==
    /\ ~panicked
    /\ op' = "IncBlendOffset"
    /\ retBool' = FALSE
    /\ blendOffset' = IF blendOffset < tail THEN blendOffset + 1 ELSE blendOffset
    /\ retInt' = blendOffset'
    /\ UNCHANGED <<frameBuffer, frozenFrame, size, head, tail, full, frozen,
                   mats, enqCount, deqCount, cloneCount, panicked>>

DecBlendOffset ==
    /\ ~panicked
    /\ blendOffset > -BlendFloor
    /\ op' = "DecBlendOffset"
    /\ retBool' = FALSE
    /\ blendOffset' = IF blendOffset < head THEN blendOffset - 1 ELSE blendOffset
    /\ retInt' = blendOffset'
    /\ UNCHANGED <<frameBuffer, frozenFrame, size, head, tail, full, frozen,
                   mats, enqCount, deqCount, cloneCount, panicked>>

Next ==
    \/ Enqueue /\ UNCHANGED loop
    \/ Dequeue /\ UNCHANGED loop
    \/ ToggleFreezeFrame /\ UNCHANGED loop
    \/ IncBlendOffset /\ UNCHANGED loop
    \/ DecBlendOffset /\ UNCHANGED loop

Spec == Init /\ [][Next]_vars

(* ------------------------------ main loop ----------------------------- *)
\* main up to the loop: the buffer is built with defaultBlendOffset; the
\* capacity frameBufferSize is scaled down to the capacities 1..MaxSize
MainInit ==
    /\ \E sz \in 1..MaxSize : NewCircularFrameBuffer(sz, defaultBlendOffset)
    /\ pc = "read"
    /\ attempt = 0
    /\ reads = 0
    /\ cycles = 0
    /\ enqCount = 0
    /\ deqCount = 0
    /\ cloneCount = 0
    /\ op = "NewCircularFrameBuffer"
    /\ retBool = FALSE
    /\ retInt = 0
    /\ panicked = FALSE

\* a ReadWebcamWithRetry whose loop runs once too often
ReadAttemptOnceMore ==
    /\ ~panicked
    /\ pc = "read"
    /\ attempt <= maxCameraRetries + 1
    /\ reads' = reads + 1
    /\ \E ok \in BOOLEAN, empty \in BOOLEAN :
         IF ok
           THEN /\ pc' = IF empty THEN "done" ELSE "enqueue"
                /\ attempt' = attempt
           ELSE /\ pc' = "read"
                /\ attempt' = attempt + 1
    /\ UNCHANGED <<cfb, mats, enqCount, deqCount, cloneCount, op, retBool,
                   retInt, panicked, cycles>>

\* one iteration of the loop of ReadWebcamWithRetry: webcam.Read either
\* delivers (an empty frame ends main's loop at line 67) or fails
ReadAttempt ==
    /\ ~panicked
    /\ pc = "read"
    /\ attempt <= maxCameraRetries
    /\ reads' = reads + 1
    /\ \E ok \in BOOLEAN, empty \in BOOLEAN :
         IF ok
           THEN /\ pc' = IF empty THEN "done" ELSE "enqueue"
                /\ attempt' = attempt
           ELSE /\ pc' = "read"
                /\ attempt' = attempt + 1
    /\ UNCHANGED <<cfb, mats, enqCount, deqCount, cloneCount, op, retBool,
                   retInt, panicked, cycles>>

\* ReadWebcamWithRetry returns false and main calls log.Fatal
ReadFailed ==
    /\ ~panicked
    /\ pc = "read"
    /\ attempt > maxCameraRetries
    /\ pc' = "fatalRead"
    /\ UNCHANGED <<cfb, mats, enqCount, deqCount, cloneCount, op, retBool,
                   retInt, panicked, attempt, reads, cycles>>

\* a main that ignores what Enqueue returns
MainEnqueueIgnoreResult ==
    /\ pc = "enqueue"
    /\ Enqueue
    /\ pc' = "blend"
    /\ UNCHANGED <<attempt, reads, cycles>>

\* main.go 81-83: Enqueue, and log.Fatal when it is rejected
MainEnqueue ==
    /\ pc = "enqueue"
    /\ Enqueue
    /\ pc' = IF retBool' THEN "blend" ELSE "fatalFull"
    /\ UNCHANGED <<attempt, reads, cycles>>

\* main.go 87-126: CalcBlendFrame and, unless it is empty, BaseFrame are
\* read and blended; indexing outside the slice panics
MainBlend ==
    /\ ~panicked
    /\ pc = "blend"
    /\ IF ~IsFrozen /\ BlendFrameIdx \notin DOMAIN frameBuffer
         THEN panicked' = TRUE /\ pc' = "panic"
         ELSE IF Closed(CalcBlendFrame)
                \/ (Content(CalcBlendFrame) # Empty /\ Closed(BaseFrame))
           THEN \E dies \in BOOLEAN :
                  /\ panicked' = dies
                  /\ pc' = IF dies THEN "panic" ELSE "key"
           ELSE panicked' = FALSE /\ pc' = "key"
    /\ UNCHANGED <<cfb, mats, enqCount, deqCount, cloneCount, op, retBool,
                   retInt, attempt, reads, cycles>>

\* the commands window.WaitKey can report
Keys == {"quit", "A", "D", "space", "none"}

\* main.go 132-143: the key read ends the loop or adjusts the buffer, and
\* the next iteration starts
MainKey ==
    /\ ~panicked
    /\ pc = "key"
    /\ \E key \in Keys :
         IF key = "quit"
           THEN /\ pc' = "quit"
                /\ UNCHANGED <<cfb, mats, enqCount, deqCount, cloneCount, op,
                               retBool, retInt, panicked, attempt, reads, cycles>>
           ELSE /\ IF key = "A" THEN DecBlendOffset
                   ELSE IF key = "D" THEN IncBlendOffset
                   ELSE IF key = "space" THEN ToggleFreezeFrame
                   ELSE UNCHANGED <<cfb, mats, enqCount, deqCount, cloneCount,
                                    op, retBool, retInt, panicked>>
                /\ pc' = IF panicked' THEN "panic" ELSE "read"
                /\ attempt' = 0
                /\ reads' = 0
                /\ cycles' = cycles + 1

MainNext ==
    \/ ReadAttempt
    \/ ReadFailed
    \/ MainEnqueue
    \/ MainBlend
    \/ MainKey

MainSpec == MainInit /\ [][MainNext]_vars

(* ------------------------- derived quantities ------------------------- *)
\* handles the Manager's fields refer to
Referenced == {frameBuffer[i] : i \in DOMAIN frameBuffer} \cup {frozenFrame}

\* frames stored and not yet evicted
Retained == enqCount - deqCount

\* content of the frame stored by the latest successful Enqueue
LatestContent == enqCount - 1

(* ============================== claims ================================ *)

\* C1: on a buffer of capacity c, after exactly c successful Enqueue calls
\* and no Dequeue, IsFull() is true, and a further Enqueue call returns
\* false, leaves every field of the buffer and every image unchanged, and
\* does not store the offered frame.
C1_FullRejects ==
    [][ (enqCount = size /\ deqCount = 0) =>
          /\ IsFull
          /\ (op' = "Enqueue" =>
                /\ retBool' = FALSE
                /\ UNCHANGED <<cfb, mats>>
                /\ FrameMat(enqCount) \notin Referenced') ]_vars

C1_Witness ==
    /\ op = "Enqueue" /\ retBool = FALSE
    /\ enqCount = size /\ deqCount = 0 /\ IsFull

\* C2 (as claimed): in a valid non-frozen state retaining at least
\* blendOffset+1 frames, CalcBlendFrame() is the frame enqueued exactly
\* blendOffset successful Enqueue calls before the one BaseFrame() returns.
C2_BlendIsOffsetBeforeBase ==
    ( /\ ~panicked /\ ~IsFrozen
      /\ minBlendOffset <= blendOffset /\ blendOffset <= maxBlendOffset
      /\ Retained >= blendOffset + 1 )
    => /\ Content(BaseFrame) = LatestContent
       /\ Content(CalcBlendFrame) = LatestContent - blendOffset

\* C3 (as claimed): Enqueue on a ring that already holds capacity frames
\* evicts the oldest frame and stores the new one; with capacity 5 and
\* blendOffset 2, after F0..F4, Enqueue(F5) succeeds, F0 is gone, full stays
\* true, tail becomes 1 and CalcBlendFrame() is F3.
C3_EnqueueEvictsWhenFull ==
    [][ (IsFull /\ op' = "Enqueue") =>
          /\ retBool' = TRUE
          /\ full'
          /\ tail' = GoMod(tail + 1, size)
          /\ frameBuffer[head] \notin Referenced'
          /\ ( (size = 5 /\ blendOffset = 2 /\ enqCount = 5 /\ deqCount = 0
                  /\ ~IsFrozen)
               => tail' = 1 /\ mats'[CalcBlendFrame'].content = 3 ) ]_vars

\* C3 (amended): Enqueue on a ring that already holds capacity frames is
\* rejected: it returns false and changes nothing.  With capacity 5 and
\* blendOffset 2, after F0..F4 the ring is full with tail 0, F0 stays in
\* slot 0 across Enqueue(F5), and CalcBlendFrame() is F3 before and after.
C3_EnqueueRejectsWhenFull ==
    [][ /\ (IsFull /\ op' = "Enqueue") =>
             /\ retBool' = FALSE
             /\ UNCHANGED <<cfb, mats, enqCount>>
        /\ (size = 5 /\ blendOffset = 2 /\ enqCount = 5 /\ deqCount = 0
              /\ ~IsFrozen) =>
             /\ IsFull /\ tail = 0
             /\ Content(frameBuffer[0]) = 0
             /\ Content(CalcBlendFrame) = 3
             /\ (op' = "Enqueue" =>
                   /\ mats'[frameBuffer'[0]].content = 0
                   /\ mats'[CalcBlendFrame'].content = 3) ]_vars

C3_Witness ==
    /\ size = 5 /\ blendOffset = 2 /\ enqCount = 5 /\ deqCount = 0
    /\ ~IsFrozen /\ op = "Enqueue" /\ retBool = FALSE
    /\ Content(CalcBlendFrame) = 3

\* C4 (as claimed): blendOffset stays inside [minBlendOffset, maxBlendOffset]
\* under any interleaving of Inc/DecBlendOffset with Enqueue, Dequeue and
\* ToggleFreezeFrame.
C4_BlendOffsetInRange ==
    minBlendOffset <= blendOffset /\ blendOffset <= maxBlendOffset

\* C5 (as claimed): ToggleFreezeFrame() on a non-frozen, non-empty buffer
\* stores a snapshot, which CalcBlendFrame() then returns, whose content is
\* that of the frame BaseFrame() returns at the moment of the call.
C5_FreezeCapturesBaseFrame ==
    [][ (~IsFrozen /\ ~IsEmpty /\ op' = "ToggleFreezeFrame" /\ ~panicked') =>
          /\ IsFrozen'
          /\ mats'[frozenFrame'].content = Content(BaseFrame)
          /\ mats'[CalcBlendFrame'].content = Content(BaseFrame) ]_vars

\* C6: while the buffer stays frozen, CalcBlendFrame() keeps returning the
\* same live snapshot with the content it had when it was taken, whatever
\* Enqueue, Dequeue, IncBlendOffset or DecBlendOffset do in between.
C6_FrozenSnapshotIndependent ==
    [][ (IsFrozen /\ IsFrozen' /\ ~panicked') =>
          /\ CalcBlendFrame' = CalcBlendFrame
          /\ mats'[CalcBlendFrame'].content = Content(CalcBlendFrame)
          /\ mats'[CalcBlendFrame'].closes = 0 ]_vars

\* a frozen buffer whose snapshot shows a stored frame that no slot holds
\* any more: the slot it was cloned from has been overwritten by Enqueue
C6_Witness ==
    /\ IsFrozen /\ ~panicked
    /\ op = "Enqueue" /\ retBool = TRUE
    /\ Content(frozenFrame) >= 0
    /\ \A i \in DOMAIN frameBuffer :
          Content(frameBuffer[i]) # Content(frozenFrame)

\* C7 (as claimed): the frozen flag is true if and only if the buffer holds
\* a live, unreleased frozenFrame.
C7_FrozenIffLiveSnapshot ==
    ~panicked => (IsFrozen <=> ~Closed(frozenFrame))

\* C8 (as claimed): every image the buffer stops referring to has been
\* released exactly once, and no image is released twice.
C8_ReleasedExactlyOnce ==
    \A h \in DOMAIN mats :
        /\ mats[h].closes <= 1
        /\ (h \notin Referenced => mats[h].closes = 1)

\* C9: with capacity c >= 1, 0 <= head < c and 0 <= tail < c in every
\* reachable state.
C9_CursorsInRange ==
    size >= 1 => /\ 0 <= head /\ head < size
                 /\ 0 <= tail /\ tail < size

\* both cursors have wrapped around the end of the ring
C9_Witness ==
    /\ size >= 2 /\ enqCount > size /\ deqCount >= size
    /\ tail = 0 /\ op = "Enqueue" /\ retBool = TRUE

\* C10: with n = successful Enqueue calls - successful Dequeue calls,
\* IsFull() iff n = capacity, IsEmpty() iff n = 0, 0 <= n <= capacity, and
\* n = (tail - head) mod capacity when not full.
C10_Occupancy ==
    /\ 0 <= Retained /\ Retained <= size
    /\ IsFull <=> (Retained = size)
    /\ IsEmpty <=> (Retained = 0)
    /\ ~IsFull => Retained = (tail - head) % size
    /\ IsFull => tail = head

\* full again after frames were evicted and the cursors moved off zero
C10_Witness ==
    /\ IsFull /\ deqCount > 0 /\ head > 0 /\ Retained = size /\ size >= 2

\* C11 (as claimed): after N <= capacity Enqueue calls on a fresh buffer and
\* no Dequeue, IsFull() is false, and IsEmpty() is false iff N = 0.
C11_NotFullUpToCapacity ==
    (deqCount = 0 /\ enqCount <= size) =>
        /\ ~IsFull
        /\ (~IsEmpty <=> enqCount = 0)

\* C11 (amended): after N <= capacity Enqueue calls on a fresh buffer and no
\* Dequeue, IsFull() is false iff N < capacity (it is true at N = capacity),
\* and IsEmpty() is true iff N = 0.
C11_FullExactlyAtCapacity ==
    deqCount = 0 =>
        /\ enqCount <= size
        /\ (IsFull <=> enqCount = size)
        /\ (IsEmpty <=> enqCount = 0)

C11_Witness ==
    /\ deqCount = 0 /\ enqCount = size /\ size >= 2
    /\ IsFull /\ ~IsEmpty /\ op = "Enqueue" /\ retBool = TRUE

\* C12 (as claimed): the constructor leaves blendOffset inside
\* [minBlendOffset, maxBlendOffset], and in every state the slot index
\* CalcBlendFrame() computes lies in [0, capacity).
C12_BlendIndexInRange ==
    /\ (op = "NewCircularFrameBuffer" =>
          minBlendOffset <= blendOffset /\ blendOffset <= maxBlendOffset)
    /\ 0 <= BlendFrameIdx
    /\ BlendFrameIdx < size

\* C13: Dequeue() on an empty buffer returns false and changes nothing; on a
\* non-empty buffer it returns true, releases the image at head and nothing
\* else, sets head to (head+1) mod capacity, clears full, and leaves tail,
\* blendOffset, the slots, the frozen flag and frozenFrame unchanged.
C13_DequeueEffect ==
    [][ op' = "Dequeue" =>
          IF IsEmpty
            THEN /\ retBool' = FALSE
                 /\ UNCHANGED <<cfb, mats>>
            ELSE /\ retBool' = TRUE
                 /\ mats'[frameBuffer[head]].closes
                       = mats[frameBuffer[head]].closes + 1
                 /\ \A h \in DOMAIN mats :
                       h # frameBuffer[head] => mats'[h] = mats[h]
                 /\ DOMAIN mats' = DOMAIN mats
                 /\ head' = (head + 1) % size
                 /\ full' = FALSE
                 /\ UNCHANGED <<tail, blendOffset, frozen, frozenFrame,
                                frameBuffer, size>> ]_vars

\* a successful Dequeue on a full ring that moved head around the end
C13_Witness ==
    /\ op = "Dequeue" /\ retBool = TRUE
    /\ deqCount = size /\ head = 0 /\ size >= 2 /\ ~IsFull
    /\ tail = head /\ enqCount = deqCount

\* C14 (as claimed): from any non-frozen state, two consecutive
\* ToggleFreezeFrame() calls return true then false, end not frozen with the
\* snapshot released once, and leave head, tail, full, blendOffset and
\* every slot as they were.
C14_FreezeRoundTrip ==
    [][ op' = "ToggleFreezeFrame" =>
          /\ UNCHANGED <<head, tail, full, blendOffset, frameBuffer>>
          /\ (~IsFrozen => retBool' = TRUE /\ IsFrozen' /\ ~panicked')
          /\ (IsFrozen => /\ retBool' = FALSE
                          /\ ~IsFrozen'
                          /\ mats'[frozenFrame'].closes = 1) ]_vars

\* C15: ReadWebcamWithRetry calls webcam.Read at most maxCameraRetries+1
\* times per iteration; when every call failed the loop ends (log.Fatal),
\* and no step of the reading changed the buffer or any image.
C15_ReadFailureLeavesBuffer ==
    [][ /\ reads <= maxCameraRetries + 1
        /\ reads' <= maxCameraRetries + 1
        /\ pc # "fatalRead"
        /\ (pc = "read" => UNCHANGED <<cfb, mats>>)
        /\ (pc = "read" /\ attempt > maxCameraRetries => pc' = "fatalRead")
        /\ (pc' = "fatalRead" => reads' = maxCameraRetries + 1) ]_vars

\* the loop ended on a failed read after frames had been stored
C15_Witness ==
    /\ pc = "fatalRead" /\ reads = maxCameraRetries + 1
    /\ cycles > 0 /\ enqCount > 0 /\ ~IsEmpty

\* C16 (as claimed): DecBlendOffset() lowers blendOffset by 1 and returns it
\* whenever blendOffset > minBlendOffset, and leaves it otherwise;
\* IncBlendOffset() raises it by 1 whenever blendOffset is below
\* min(maxBlendOffset, retained frames), and leaves it otherwise.
C16_IncDecStep ==
    [][ /\ (op' = "DecBlendOffset" =>
              /\ blendOffset' = IF blendOffset > minBlendOffset
                                  THEN blendOffset - 1 ELSE blendOffset
              /\ retInt' = blendOffset')
        /\ (op' = "IncBlendOffset" =>
              /\ blendOffset' =
                    IF blendOffset < maxBlendOffset /\ blendOffset < Retained
                      THEN blendOffset + 1 ELSE blendOffset
              /\ retInt' = blendOffset') ]_vars

\* C17: as long as no Dequeue has succeeded, head stays 0, tail only
\* advances until the ring is full, and once IsFull() is true it stays true
\* and every Enqueue returns false, whatever else is called in between.
C17_FullIsPermanent ==
    [][ deqCount' = 0 =>
          /\ head = 0 /\ head' = 0
          /\ (IsFull => /\ IsFull'
                        /\ (op' = "Enqueue" => retBool' = FALSE)
                        /\ tail' = tail)
          /\ (~IsFull => \/ tail' = tail
                         \/ tail' = tail + 1
                         \/ tail' = 0 /\ IsFull') ]_vars

\* a full ring that rejected an Enqueue after a freeze and an offset change
C17_Witness ==
    /\ deqCount = 0 /\ IsFull /\ IsFrozen /\ size >= 3
    /\ blendOffset > MaxInitOffset
    /\ op = "Enqueue" /\ retBool = FALSE

\* C18: main's loop stores a frame in each of its first capacity
\* iterations; in the next one Enqueue returns false and main takes the
\* fatal exit, so no more than capacity iterations complete.
C18_LoopDiesWhenFull ==
    [][ /\ cycles <= size /\ cycles' <= size
        /\ (pc = "enqueue" =>
              /\ retBool' = (cycles < size)
              /\ (cycles < size => pc' = "blend" /\ enqCount' = cycles + 1)
              /\ (cycles = size => pc' = "fatalFull"))
        /\ (pc' = "fatalFull" => pc = "enqueue" /\ cycles = size)
        /\ pc # "fatalFull" ]_vars

C18_Witness ==
    /\ pc = "fatalFull" /\ cycles = size /\ size >= 3
    /\ op = "Enqueue" /\ retBool = FALSE /\ cloneCount > 0

\* C19 (as claimed): whenever the buffer is not empty, BaseFrame() and the
\* non-frozen CalcBlendFrame() return, and ToggleFreezeFrame() would clone,
\* an image that Dequeue has not released.
C19_NoUseAfterRelease ==
    (~panicked /\ ~IsEmpty) =>
        /\ ~Closed(BaseFrame)
        /\ (~IsFrozen /\ BlendFrameIdx \in DOMAIN frameBuffer
              => ~Closed(CalcBlendFrame))
        /\ (~IsFrozen => ~Closed(frameBuffer[tail]))

\* C20: the k-th successful Dequeue releases exactly the frame stored by
\* the k-th successful Enqueue, and whenever the buffer is not empty
\* BaseFrame() is the frame stored by the latest successful Enqueue.
C20_FifoEviction ==
    [][ /\ (~IsEmpty => BaseFrame = FrameMat(enqCount - 1))
        /\ (~IsEmpty' => BaseFrame' = FrameMat(enqCount' - 1))
        /\ (op' = "Dequeue" /\ deqCount' = deqCount + 1 =>
              /\ mats[FrameMat(deqCount)].closes = 0
              /\ mats' = Close(FrameMat(deqCount))) ]_vars

\* a later Dequeue on a ring whose cursors have wrapped
C20_Witness ==
    /\ op = "Dequeue" /\ retBool = TRUE
    /\ deqCount >= 2 /\ enqCount > size /\ ~IsEmpty /\ size >= 2

=============================================================================
